---- MODULE Spec2Model ----
(***************************************************************************)
(* Model of pdf_gpt4_json: process() in gpt.py and the helpers of util.py  *)
(* it drives.  The workspace is four folders on the filesystem; process()  *)
(* resets them, builds the candidate list, loops over the candidates       *)
(* (skip check, inference call, classification, record write, sleep) and   *)
(* commits.  The same workspace is kept from one call of process() to the  *)
(* next, so a re-run over an earlier run's folders is part of the model.   *)
(***************************************************************************)
EXTENDS Integers, Sequences, FiniteSets, TLC

\* ------------------------------------------------------------------ bounds
\* most pages a document of the model has
MaxPages == 3
\* most calls of process() over the same workspace
MaxRuns == 2
\* most pages of a document whose pages are of different kinds
MaxImagePages == 2
\* most pages of a document long enough for two-digit page numbers
LongPages == 11
\* most tokens of a reply text
MaxReplyLen == 3

\* --------------------------------------------------------- program constants
\* gpt.py:152  sleep(8)
SleepSeconds == 8
\* util.py:176  if width > 1024
max_width == 1024
\* util.py:202  if height > 1024
max_height == 1024

VARIABLES
    pc,                  \* position of the process: idle, images, loop, classify, sleep, commit, done, exited
    run,                 \* number of calls of process() so far
    doc,                 \* the document: [readable, pages]
    cleanup,             \* the cleanup argument of this call
    tmp_images_folder,   \* ./<doc>_tmp_images
    output_folder,       \* ./<doc>_output
    final_output_folder, \* <doc>_final_folders
    errors_folder,       \* ./<doc>_errors
    image_files,         \* sorted candidate filenames (do_images)
    index,               \* 0-based loop index of process()
    response_dict,       \* the response object of the current candidate
    now,                 \* seconds of sleep() executed in this call
    exitStatus,          \* status the interpreter exits with: -1 while running
    lastError,           \* what the handler that ended the run printed
    requests,            \* log of the calls of process_image_to_json in this call
    before,              \* the workspace as it was when this call started
    writes,              \* record files written by this call
    image_encodings,     \* the encodings of image_files, in the same order (do_images)
    world                \* what the network and the disk can do: [net, faults]

vars == <<pc, run, doc, cleanup, tmp_images_folder, output_folder,
          final_output_folder, errors_folder, image_files, index,
          response_dict, now, exitStatus, lastError, requests, before, writes,
          image_encodings, world>>

folders == <<tmp_images_folder, output_folder, final_output_folder, errors_folder>>

\* ------------------------------------------------------------- filesystem
\* A folder is absent, or present with a set of files [name, ext, data].
Absent == [exists |-> FALSE, files |-> {}]
EmptyDir == [exists |-> TRUE, files |-> {}]

\* shutil.rmtree(path, ignore_errors=True)
rmtree(folder) == Absent

\* os.makedirs(path, exist_ok=True)
makedirs(folder) == IF folder.exists THEN folder ELSE EmptyDir

\* os.path.exists(os.path.join(folder, f"{name}.{ext}"))
path_exists(folder, name, ext) ==
    folder.exists /\ \E f \in folder.files : f.name = name /\ f.ext = ext

\* with open(path, "w") as file: json.dump(data, file)
write_file(folder, name, ext, data) ==
    [exists |-> TRUE,
     files |-> {f \in folder.files : ~(f.name = name /\ f.ext = ext)}
                 \cup {[name |-> name, ext |-> ext, data |-> data]}]

\* os.listdir(folder)
listdir(folder) == {<<f.name, f.ext>> : f \in folder.files}

\* ------------------------------------------------------ parse_json_string
\* A reply text is a sequence of tokens:
\*   "J"   a JSON document          "JU"  a JSON document with // inside a string
\*   "W"   text that is not JSON    "NL"  a newline
\*   "LC"  //     "BO"  /*     "BC"  */     "FJ"  ```json     "F"  ```
Token == {"J", "JU", "W", "NL", "LC", "BO", "BC", "FJ", "F"}

RECURSIVE strip_line_comments(_, _)
\* re.sub(r'//.*', '', code): from // to the end of the line, newline kept
strip_line_comments(code, inComment) ==
    IF code = <<>> THEN <<>>
    ELSE LET h == Head(code)
             t == Tail(code)
         IN  IF inComment
             THEN IF h = "NL" THEN <<h>> \o strip_line_comments(t, FALSE)
                  ELSE strip_line_comments(t, TRUE)
             ELSE IF h = "LC" THEN strip_line_comments(t, TRUE)
             ELSE IF h = "JU" THEN <<"W">> \o strip_line_comments(t, TRUE)
             ELSE <<h>> \o strip_line_comments(t, FALSE)

\* index of the first token of s at or after position from that is in set, 0 if none
RECURSIVE find_from(_, _, _)
find_from(s, set, from) ==
    IF from > Len(s) THEN 0
    ELSE IF s[from] \in set THEN from
    ELSE find_from(s, set, from + 1)

RECURSIVE strip_block_comments(_)
\* re.sub(r'/\*.*?\*/', '', code, flags=re.DOTALL): non-greedy, across lines
strip_block_comments(code) ==
    IF code = <<>> THEN <<>>
    ELSE LET close == find_from(code, {"BC"}, 2)
         IN  IF Head(code) = "BO" /\ close > 0
             THEN strip_block_comments(SubSeq(code, close + 1, Len(code)))
             ELSE <<Head(code)>> \o strip_block_comments(Tail(code))

remove_comments(code) == strip_block_comments(strip_line_comments(code, FALSE))

\* json.loads(text): the value, or JSONDecodeError; whitespace around is allowed
json_loads(text) ==
    LET body == SelectSeq(text, LAMBDA tok : tok # "NL")
    IN  IF body = <<"J">> \/ body = <<"JU">>
        THEN [kind |-> "value", value |-> body[1]]
        ELSE [kind |-> "JSONDecodeError", value |-> ""]

\* parse_json_string(json_string): [kind |-> "value", value], [kind |-> "none"]
\* (the JSONDecodeError handler), or [kind |-> "raise"]: str.index raised ValueError,
\* which the handler does not catch
parse_json_string(json_string) ==
    LET code == remove_comments(json_string)
        open == find_from(code, {"FJ"}, 1)
        end == find_from(code, {"F", "FJ"}, open + 1)
    IN  IF open > 0 /\ end = 0
        THEN [kind |-> "raise", value |-> "ValueError"]
        ELSE LET text == IF open > 0 THEN SubSeq(code, open + 1, end - 1) ELSE code
                 loaded == json_loads(text)
             IN  IF loaded.kind = "value" THEN loaded
                 ELSE [kind |-> "none", value |-> ""]

\* ------------------------------------------------------- inference service
\* reply texts the service is modelled to send
Replies == { <<"J">>,                       \* bare JSON
             <<"W", "FJ", "J", "F", "W">>,  \* fenced JSON inside prose
             <<"W">>,                       \* prose only
             <<"FJ", "J">> }                \* fence opened, never closed

\* response bodies: a dict with an "error" key, with "choices", or with neither
ErrorBody == [error |-> TRUE, choices |-> FALSE, content |-> <<>>]
NoKeysBody == [error |-> FALSE, choices |-> FALSE, content |-> <<>>]
Responses == {ErrorBody, NoKeysBody}
                \cup {[error |-> FALSE, choices |-> TRUE, content |-> c] : c \in Replies}

\* what requests.post / response.json() can do
Net == { [kind |-> "RequestException", body |-> NoKeysBody],   \* connection failure, timeout
         [kind |-> "JSONDecodeError", body |-> NoKeysBody] }   \* body is not JSON
         \cup {[kind |-> "reply", body |-> r] : r \in Responses}

\* mutant: a failed request comes back as a dict with an "error" key
process_image_to_json_contained(net) ==
    IF net.kind = "reply"
    THEN [raised |-> FALSE, error |-> "", value |-> net.body]
    ELSE [raised |-> FALSE, error |-> "", value |-> ErrorBody]

\* process_image_to_json: requests.post(...) then response.json(); nothing is caught
process_image_to_json(net) ==
    IF net.kind = "reply"
    THEN [raised |-> FALSE, error |-> "", value |-> net.body]
    ELSE [raised |-> TRUE, error |-> net.kind, value |-> NoKeysBody]

\* ------------------------------------------------------------------ images
\* An image is [width, height, pixels]; pixels is the run-length form of
\* img.getdata(), the pixels row by row from the top-left one: a sequence of runs
\* [count, colour] with count >= 1 and the counts summing to width * height.

RECURSIVE scan_pixels(_, _)
\* for pixel in img.getdata(): if pixel != first_pixel_color: return False
scan_pixels(pixels, first_pixel_color) ==
    IF pixels = <<>> THEN TRUE
    ELSE IF Head(pixels).colour # first_pixel_color THEN FALSE
    ELSE scan_pixels(Tail(pixels), first_pixel_color)

\* mutant: only the last pixel is compared with the first
is_solid_color_corners(image) ==
    image.pixels[Len(image.pixels)].colour = image.pixels[1].colour

\* is_solid_color: first_pixel_color = img.getpixel((0, 0)), then the scan
is_solid_color(image) == scan_pixels(image.pixels, image.pixels[1].colour)

RECURSIVE clip_pixels(_, _, _)
\* the pixels at positions lo..hi (from 1, in getdata order) of the runs
clip_pixels(pixels, lo, hi) ==
    IF pixels = <<>> \/ hi < 1 THEN <<>>
    ELSE LET n == Head(pixels).count
             from == IF lo < 1 THEN 1 ELSE lo
             to == IF hi > n THEN n ELSE hi
             rest == clip_pixels(Tail(pixels), lo - n, hi - n)
         IN  IF from > to THEN rest
             ELSE <<[count |-> to - from + 1, colour |-> Head(pixels).colour]>> \o rest

\* im.crop((0, top, width, bottom)): the rows top..bottom-1 at full width
crop_rows(image, top, bottom) ==
    [width |-> image.width,
     height |-> bottom - top,
     pixels |-> clip_pixels(image.pixels, top * image.width + 1, bottom * image.width)]

\* The sizes <<width, height>> of the model for which the double product
\* height * (1024 / width) falls below the whole number height * 1024 / width
\* (IEEE 754: 1122 * (1024 / 1122) = 1023.9999999999999).
float_product_below == {<<1122, 1122>>}

\* mutant: the height rounded to the nearest integer
resized_height_nearest(width, height) ==
    (2 * height * max_width + width) \div (2 * width)

\* int(height * (1024 / width)): the double product, truncated
resized_height(width, height) ==
    IF <<width, height>> \in float_product_below
    THEN (height * max_width) \div width - 1
    ELSE (height * max_width) \div width

\* The pixels of a resampled image: Image.resize keeps the colours of the image in
\* their order; the lengths its filter gives the runs are not modelled, every run
\* after the first is one pixel long.
resample(pixels, total) ==
    <<[count |-> total - (Len(pixels) - 1), colour |-> pixels[1].colour]>>
       \o [i \in 1..(Len(pixels) - 1) |-> [count |-> 1, colour |-> pixels[i + 1].colour]]

\* resize_images, lines 174-182, for one image
resize_image(image) ==
    IF image.width > max_width
    THEN LET h == resized_height(image.width, image.height)
         IN  [width |-> max_width, height |-> h,
              pixels |-> resample(image.pixels, max_width * h)]
    ELSE image

\* the names of a list
names_of(listed) == {listed[i] : i \in 1..Len(listed)}

\* resize_images: every listed file is resized in place
resize_images(listed, folder) ==
    [exists |-> TRUE,
     files |-> {IF f.name \in names_of(listed)
                THEN [f EXCEPT !.data = resize_image(f.data)]
                ELSE f : f \in folder.files}]

\* split_image(image_path, rows, 1, should_square=False, should_cleanup=True) of the
\* split_image package: rows tiles of int(height / rows) rows each, saved as
\* <name>_<n><ext>, n from 0; the rows left over at the bottom are in no tile
split_image(f, rows) ==
    LET row_height == f.data.height \div rows
    IN  {[name |-> Append(f.name, n), ext |-> f.ext,
          data |-> crop_rows(f.data, n * row_height, n * row_height + row_height)]
           : n \in 0..(rows - 1)}

\* split_images, lines 200-208, for one file: num_splits = int(height / 1024); the
\* file is replaced by its tiles (should_cleanup removes it)
split_file(f) ==
    IF f.data.height > max_height
    THEN split_image(f, f.data.height \div max_height)
    ELSE {f}

\* split_images: every listed file taller than 1024 is replaced by its tiles
split_images(listed, folder) ==
    [exists |-> TRUE,
     files |-> UNION {IF f.name \in names_of(listed) THEN split_file(f) ELSE {f}
                        : f \in folder.files}]

\* A file name is <docid>_<page>.jpg or, for a tile, <docid>_<page>_<n>.jpg: the
\* model holds <<page>> or <<page, n>>.
RECURSIVE digits(_)
\* str(n) as character codes
digits(n) == IF n < 10 THEN <<48 + n>> ELSE digits(n \div 10) \o <<48 + (n % 10)>>

RECURSIVE filename(_)
\* the characters of a file name after the common "<docid>_", up to the "." of ".jpg"
filename(name) ==
    digits(name[1]) \o (IF Len(name) = 1 THEN <<46>> ELSE <<95>> \o filename(Tail(name)))

RECURSIVE str_less(_, _)
\* a < b for Python strings: by the first character that differs
str_less(a, b) ==
    IF b = <<>> THEN FALSE
    ELSE IF a = <<>> THEN TRUE
    ELSE IF Head(a) # Head(b) THEN Head(a) < Head(b)
    ELSE str_less(Tail(a), Tail(b))

\* get_image_files, line 250
image_extensions == {"jpg", "jpeg", "png", "gif"}

\* the content of the file of that name
file_data(folder, name) == (CHOOSE f \in folder.files : f.name = name).data

\* encode_images, lines 226-230, for one file: "data:<mime>;base64,<payload>"
encode_image(f) ==
    [mime |-> IF f.ext \in {"jpg", "jpeg"} THEN "image/jpeg" ELSE "image/" \o f.ext,
     base64 |-> f.data]

\* encode_images: the encodings of the listed files, in the order of the list
encode_images(listed, folder) ==
    [i \in 1..Len(listed) |->
        encode_image(CHOOSE f \in folder.files : f.name = listed[i])]

\* ----------------------------------------------------------------- process
\* the candidate the loop is at: image_files[index], 0-based in the code
current == image_files[index + 1]

\* image_files.sort(): the names in ascending order of their strings
RECURSIVE sorted_names(_)
sorted_names(names) ==
    IF names = {} THEN <<>>
    ELSE LET least == CHOOSE n \in names :
                         \A m \in names \ {n} : str_less(filename(n), filename(m))
         IN  <<least>> \o sorted_names(names \ {least})

\* extract_pages_as_images: one <docid>_<page>.jpg per page, pages numbered from 1
extract_pages_as_images(folder, pages) ==
    [exists |-> TRUE,
     files |-> folder.files
                 \cup {[name |-> <<k>>, ext |-> "jpg", data |-> pages[k]]
                         : k \in 1..Len(pages)}]

\* mutant: the list in descending order
get_image_files_descending(folder) ==
    LET ascending == sorted_names({f.name : f \in {g \in folder.files :
                                                     /\ g.ext \in image_extensions
                                                     /\ ~is_solid_color(g.data)}})
    IN  [i \in 1..Len(ascending) |-> ascending[Len(ascending) + 1 - i]]

\* get_image_files: the image files of the folder that are not of one colour, sorted
get_image_files(folder) ==
    sorted_names({f.name : f \in {g \in folder.files :
                                    /\ g.ext \in image_extensions
                                    /\ ~is_solid_color(g.data)}})

\* sys.exit() with no argument: SystemExit(None), the interpreter exits with status 0
sys_exit == 0

\* process() returns; the interpreter ends normally
normal_return == 0

\* lines 54-56: the staging folder is deleted and recreated
reset_tmp_images(folder) == makedirs(rmtree(folder))

\* lines 58-60: the output folder is deleted and recreated
reset_output(folder) == makedirs(rmtree(folder))

\* mutant: the final folder of an earlier run is left in place
reset_final_kept(folder) == folder

\* lines 62-63: the final folder is deleted "to make sure its empty"
reset_final(folder) == rmtree(folder)

\* lines 65-67: the errors folder is deleted and recreated
reset_errors(folder) == makedirs(rmtree(folder))

\* names with a success record (output or final folder) or a failure record
recorded_names ==
    {f.name : f \in {g \in output_folder.files \cup final_output_folder.files :
                        g.ext = "json"}}
    \cup {f.name : f \in {g \in errors_folder.files : g.ext = "response.json"}}

\* process(), lines 46-67: the call starts and the working folders are reset
Start ==
    /\ pc \in {"idle", "done", "exited"}
    /\ run < MaxRuns
    /\ run' = run + 1
    /\ \E c \in BOOLEAN : cleanup' = c
    /\ before' = [final |-> final_output_folder.exists, records |-> recorded_names]
    /\ tmp_images_folder' = reset_tmp_images(tmp_images_folder)
    /\ output_folder' = reset_output(output_folder)
    /\ final_output_folder' = reset_final(final_output_folder)
    /\ errors_folder' = reset_errors(errors_folder)
    /\ image_files' = <<>>
    /\ index' = 0
    /\ response_dict' = NoKeysBody
    /\ now' = 0
    /\ exitStatus' = -1
    /\ lastError' = ""
    /\ requests' = <<>>
    /\ writes' = {}
    /\ image_encodings' = <<>>
    /\ pc' = "images"
    /\ UNCHANGED <<doc, world>>

\* mutant: the handler prints the error and the run goes on to the commit
HandlerResume(error) ==
    /\ pc' = "commit"
    /\ lastError' = error
    /\ UNCHANGED <<exitStatus, output_folder, final_output_folder, errors_folder>>

\* the except handler of process(), lines 179-182: print the error, sys.exit()
Handler(error) ==
    /\ pc' = "exited"
    /\ lastError' = error
    /\ exitStatus' = sys_exit
    /\ UNCHANGED <<output_folder, final_output_folder, errors_folder>>

\* do_images, lines 185-221 (called at line 74, outside the try of process):
\* the pages are rendered and listed
DoImages ==
    /\ pc = "images"
    /\ IF ~doc.readable
       THEN \* lines 207-211: extract_pages_as_images raised
            /\ pc' = "exited"
            /\ lastError' = "RenderError"
            /\ exitStatus' = sys_exit
            /\ UNCHANGED <<tmp_images_folder, image_files>>
       ELSE LET staged == extract_pages_as_images(tmp_images_folder, doc.pages)
            IN  IF listdir(staged) = {}
                THEN \* lines 217-219: no images
                     /\ pc' = "exited"
                     /\ lastError' = "NoImages"
                     /\ exitStatus' = sys_exit
                     /\ tmp_images_folder' = staged
                     /\ UNCHANGED image_files
                ELSE /\ tmp_images_folder' = staged
                     /\ image_files' = get_image_files(staged)
                     /\ pc' = "resize"
                     /\ UNCHANGED <<lastError, exitStatus>>
    /\ UNCHANGED <<run, doc, cleanup, output_folder, final_output_folder,
                   errors_folder, index, response_dict, now, requests, before, writes,
                   image_encodings, world>>

\* do_images, lines 223-224: the listed images wider than 1024 are resized
Resize ==
    /\ pc = "resize"
    /\ tmp_images_folder' = resize_images(image_files, tmp_images_folder)
    /\ pc' = "split"
    /\ UNCHANGED <<run, doc, cleanup, output_folder, final_output_folder, errors_folder,
                   image_files, index, response_dict, now, exitStatus, lastError,
                   requests, before, writes, image_encodings, world>>

\* do_images, lines 226-236: the listed images taller than 1024 are split, the
\* folder is listed again and the listed files are encoded
Split ==
    /\ pc = "split"
    /\ LET split == split_images(image_files, tmp_images_folder)
           listed == get_image_files(split)
       IN  /\ tmp_images_folder' = split
           /\ image_files' = listed
           /\ image_encodings' = encode_images(listed, split)
    /\ pc' = "loop"
    /\ UNCHANGED <<run, doc, cleanup, output_folder, final_output_folder, errors_folder,
                   index, response_dict, now, exitStatus, lastError, requests, before,
                   writes, world>>

\* mutant: the check looks at the folder, not at the file of the candidate
skip_check_folder(name) == errors_folder.exists /\ listdir(errors_folder) # {}

\* lines 103-106: the path the skip check looks at
skip_check(name) == path_exists(errors_folder, name, "json")

\* lines 97-116: the loop head: end of list, skip, or the inference call
Loop ==
    /\ pc = "loop"
    /\ IF index = Len(image_files)
       THEN /\ pc' = "commit"
            /\ UNCHANGED <<index, response_dict, requests, lastError, exitStatus,
                           output_folder, final_output_folder, errors_folder>>
       ELSE IF skip_check(current)
       THEN \* lines 106-109: continue
            /\ index' = index + 1
            /\ UNCHANGED <<pc, response_dict, requests, lastError, exitStatus,
                           output_folder, final_output_folder, errors_folder>>
       ELSE \E net \in world.net :
            LET r == process_image_to_json(net)
            IN  /\ requests' = Append(requests,
                                      [name |-> current, at |-> now, net |-> net,
                                       recorded |-> current \in recorded_names,
                                       image |-> image_encodings[index + 1]])
                /\ IF r.raised
                   THEN /\ Handler(r.error)
                        /\ UNCHANGED <<index, response_dict>>
                   ELSE /\ response_dict' = r.value
                        /\ pc' = "classify"
                        /\ UNCHANGED <<index, lastError, exitStatus, output_folder,
                                       final_output_folder, errors_folder>>
    /\ UNCHANGED <<run, doc, cleanup, tmp_images_folder, image_files, now, before, writes,
                   image_encodings, world>>

\* mutant: only the "error" key is checked, a reply that parses to None is a success
classify_error_key_only(resp) ==
    IF resp.error
    THEN [kind |-> "failure", value |-> ""]
    ELSE IF ~resp.choices
    THEN [kind |-> "raise", value |-> "KeyError"]
    ELSE LET json_file_data == parse_json_string(resp.content)
         IN  IF json_file_data.kind = "raise" THEN json_file_data
             ELSE [kind |-> "success", value |-> json_file_data.value]

\* lines 118-132: what the response is taken for.  "failure": had_errors is set;
\* "success": json_file_data is the parsed value; "raise": the subscript
\* response_dict["choices"] or parse_json_string raised
classify(resp) ==
    IF resp.error
    THEN [kind |-> "failure", value |-> ""]
    ELSE IF ~resp.choices
    THEN [kind |-> "raise", value |-> "KeyError"]
    ELSE LET json_file_data == parse_json_string(resp.content)
         IN  IF json_file_data.kind = "raise" THEN json_file_data
             ELSE IF json_file_data.kind = "none" THEN [kind |-> "failure", value |-> ""]
             ELSE [kind |-> "success", value |-> json_file_data.value]

\* lines 118-149: classify the response and write the record of the candidate.
\* fault: open() or json.dump() of the record file raises OSError
Classify ==
    /\ pc = "classify"
    /\ \E fault \in world.faults :
       LET c == classify(response_dict)
       IN  IF c.kind = "raise"
           THEN /\ Handler(c.value)
                /\ UNCHANGED <<index, writes>>
           ELSE IF fault
           THEN /\ Handler("OSError: open")
                /\ UNCHANGED <<index, writes>>
           ELSE IF c.kind = "failure"
           THEN \* lines 135-143: the raw response goes to the errors folder; continue
                /\ errors_folder' = write_file(errors_folder, current,
                                               "response.json", response_dict)
                /\ writes' = writes \cup {<<"errors", current>>}
                /\ index' = index + 1
                /\ pc' = "loop"
                /\ UNCHANGED <<output_folder, final_output_folder, lastError, exitStatus>>
           ELSE \* lines 145-149: the parsed value goes to the output folder
                /\ output_folder' = write_file(output_folder, current, "json", c.value)
                /\ writes' = writes \cup {<<"output", current>>}
                /\ pc' = "sleep"
                /\ UNCHANGED <<index, errors_folder, final_output_folder, lastError,
                               exitStatus>>
    /\ UNCHANGED <<run, doc, cleanup, tmp_images_folder, image_files, response_dict,
                   now, requests, before, image_encodings, world>>

\* lines 151-152: sleep(8), then the next iteration
Sleep ==
    /\ pc = "sleep"
    /\ now' = now + SleepSeconds
    /\ index' = index + 1
    /\ pc' = "loop"
    /\ UNCHANGED <<run, doc, cleanup, folders, image_files, response_dict, exitStatus,
                   lastError, requests, before, writes, image_encodings, world>>

\* mutant: the folder is removed with its files
clean_up_tmp_images_folder_rmtree(folder) == Absent

\* clean_up_tmp_images_folder: every file of the folder is removed, the folder stays
clean_up_tmp_images_folder(folder) ==
    IF ~folder.exists THEN folder ELSE EmptyDir

\* mutant: the final folder is kept even when it holds nothing
commit_final_kept(folder) == folder

\* lines 167-171: the final folder is removed if it holds nothing
commit_final(folder) == IF listdir(folder) # {} THEN folder ELSE rmtree(folder)

\* lines 173-177: the errors folder is removed if it holds nothing
commit_errors(folder) == IF listdir(folder) # {} THEN folder ELSE rmtree(folder)

\* lines 154-177: cleanup, rename of the output folder, removal of empty folders
Commit ==
    /\ pc = "commit"
    /\ tmp_images_folder' = IF cleanup THEN clean_up_tmp_images_folder(tmp_images_folder)
                            ELSE tmp_images_folder
    /\ IF ~output_folder.exists \/ listdir(final_output_folder) # {}
       THEN \* os.rename raises: no source, or a destination that is not empty
            /\ pc' = "exited"
            /\ lastError' = "OSError: rename"
            /\ exitStatus' = sys_exit
            /\ UNCHANGED <<output_folder, final_output_folder, errors_folder>>
       ELSE IF ~errors_folder.exists
       THEN \* os.listdir(errors_folder) raises after the rename
            /\ pc' = "exited"
            /\ lastError' = "OSError: listdir"
            /\ exitStatus' = sys_exit
            /\ output_folder' = Absent
            /\ final_output_folder' = commit_final(output_folder)
            /\ UNCHANGED errors_folder
       ELSE /\ output_folder' = Absent
            /\ final_output_folder' = commit_final(output_folder)
            /\ errors_folder' = commit_errors(errors_folder)
            /\ pc' = "done"
            /\ exitStatus' = normal_return
            /\ UNCHANGED lastError
    /\ UNCHANGED <<run, doc, cleanup, image_files, index, response_dict, now,
                   requests, before, writes, image_encodings, world>>

\* Another process with access to the workspace creates a file for the candidate
\* the loop is about to reach, in the output or errors folder: the skip check of
\* lines 103-109 reads the folder with os.path.exists, so what it finds is not
\* only what this call wrote.
ExternalCreate ==
    /\ pc = "loop"
    /\ index < Len(image_files)
    /\ \E name \in {current} :
          \/ /\ ~path_exists(errors_folder, name, "json")
             /\ errors_folder' = write_file(errors_folder, name, "json", ErrorBody)
             /\ UNCHANGED output_folder
          \/ /\ ~path_exists(errors_folder, name, "response.json")
             /\ errors_folder' = write_file(errors_folder, name, "response.json", ErrorBody)
             /\ UNCHANGED output_folder
          \/ /\ ~path_exists(output_folder, name, "json")
             /\ output_folder' = write_file(output_folder, name, "json", "J")
             /\ UNCHANGED errors_folder
    /\ UNCHANGED <<pc, run, doc, cleanup, tmp_images_folder, final_output_folder,
                   image_files, index, response_dict, now, exitStatus, lastError,
                   requests, before, writes, image_encodings, world>>

\* ------------------------------------------------------------ page images
\* an image of one colour
one_colour(w, h, c) ==
    [width |-> w, height |-> h, pixels |-> <<[count |-> w * h, colour |-> c]>>]

\* an image of colour c with the pixel at position p (from 1, row by row) of colour d
one_pixel_changed(w, h, c, p, d) ==
    [width |-> w, height |-> h,
     pixels |-> (IF p > 1 THEN <<[count |-> p - 1, colour |-> c]>> ELSE <<>>)
                  \o <<[count |-> 1, colour |-> d]>>
                  \o (IF p < w * h THEN <<[count |-> w * h - p, colour |-> c]>> ELSE <<>>)]

\* an image whose top rows are of colour c and whose other rows are of colour d
two_bands(w, h, top, c, d) ==
    [width |-> w, height |-> h,
     pixels |-> <<[count |-> top * w, colour |-> c], [count |-> (h - top) * w, colour |-> d]>>]

\* a page within both limits
Plain == two_bands(800, 1000, 500, 0, 1)

\* the rendered pages of the model: within the limits, of one colour, of one colour
\* but for one pixel, too tall, too wide, both
PageImages ==
    { Plain,
      one_colour(800, 1000, 0),
      one_pixel_changed(800, 1000, 0, 1, 1),
      one_pixel_changed(800, 1000, 0, 400400, 1),
      one_pixel_changed(800, 1000, 0, 800000, 1),
      two_bands(800, 1500, 700, 0, 1),
      two_bands(800, 2048, 100, 0, 1),
      two_bands(1000, 3001, 2000, 0, 1),
      two_bands(800, 11300, 100, 0, 1),
      two_bands(1536, 1000, 500, 0, 1),
      two_bands(1122, 1122, 500, 0, 1),
      two_bands(2048, 3000, 1000, 0, 1) }

\* ---------------------------------------------------------- specifications
\* documents of pages within the limits, and a document pdfium cannot open
Docs == {[readable |-> FALSE, pages |-> <<>>]}
          \cup {[readable |-> TRUE, pages |-> [k \in 1..n |-> Plain]] : n \in 0..MaxPages}

\* page k of a long document: within both limits, different from every other page
numbered_page(k) == two_bands(800, 1000, 50 * k, 0, 1)

\* documents of a few pages of every kind, and long documents of numbered pages
ImageDocs ==
    {[readable |-> TRUE, pages |-> p] :
        p \in UNION {[1..n -> PageImages] : n \in 1..MaxImagePages}}
    \cup {[readable |-> TRUE, pages |-> [k \in 1..n |-> numbered_page(k)]]
            : n \in 10..LongPages}

\* the reply texts of at most MaxReplyLen tokens
ReplyTexts == UNION {[1..n -> Token] : n \in 1..MaxReplyLen}

\* a service that answers every request with a bare JSON document, a disk that
\* takes every write
Reliable ==
    [net |-> {[kind |-> "reply",
               body |-> [error |-> FALSE, choices |-> TRUE, content |-> <<"J">>]]},
     faults |-> {FALSE}]

\* a service that answers every request with some reply text
AnyReply ==
    [net |-> {[kind |-> "reply",
               body |-> [error |-> FALSE, choices |-> TRUE, content |-> c]]
                : c \in ReplyTexts},
     faults |-> {FALSE}]

\* before the first call of process(): no working folder exists
Fresh ==
    /\ pc = "idle"
    /\ run = 0
    /\ cleanup = FALSE
    /\ tmp_images_folder = Absent
    /\ output_folder = Absent
    /\ final_output_folder = Absent
    /\ errors_folder = Absent
    /\ image_files = <<>>
    /\ image_encodings = <<>>
    /\ index = 0
    /\ response_dict = NoKeysBody
    /\ now = 0
    /\ exitStatus = -1
    /\ lastError = ""
    /\ requests = <<>>
    /\ before = [final |-> FALSE, records |-> {}]
    /\ writes = {}

Init ==
    /\ Fresh
    /\ doc \in Docs
    /\ world = [net |-> Net, faults |-> BOOLEAN]

\* documents of every kind of page, processed with a reliable service
InitImages ==
    /\ Fresh
    /\ doc \in ImageDocs
    /\ world = Reliable

\* a one-page document whose reply is any text
InitReplies ==
    /\ Fresh
    /\ doc = [readable |-> TRUE, pages |-> <<Plain>>]
    /\ world = AnyReply

Next == Start \/ DoImages \/ Resize \/ Split \/ Loop \/ Classify \/ Sleep \/ Commit

\* the program alone on its workspace
Spec == Init /\ [][Next]_vars

\* the program on a workspace another process writes to as well
SpecShared == Init /\ [][Next \/ ExternalCreate]_vars

\* the program on documents whose pages need resizing, splitting and filtering
SpecImages == InitImages /\ [][Next]_vars

\* the program on every reply text the service can send
SpecReplies == InitReplies /\ [][Next]_vars

\* ------------------------------------------------------------------ claims
\* the candidate's response is a failure in the sense of section 4.8, rule 3:
\* it has an "error" key, or its reply text makes parse_json_string return None
FailedResponse(resp) ==
    resp.error \/ (resp.choices /\ parse_json_string(resp.content).kind = "none")

\* requests of this call whose transport failed (no response object came back)
TransportFailures == {i \in 1..Len(requests) : requests[i].net.kind # "reply"}

\* errors the handler of process() prints for an exception raised inside the loop
LoopErrors == {"RequestException", "JSONDecodeError", "KeyError", "ValueError",
               "OSError: open"}

\* C1: no inference request is issued for a candidate that already has a success
\* record (<name>.json in the output folder) or a failure record
\* (<name>.response.json in the errors folder) when the loop reaches it.
C1_NoRequestForRecordedCandidate ==
    \A i \in 1..Len(requests) : ~requests[i].recorded

\* C2: a call of process() issues no inference request for a candidate that had a
\* success or failure record when the call started (idempotent re-run).
C2_NoRequestForEarlierRecord ==
    \A i \in 1..Len(requests) : requests[i].name \notin before.records

\* C3: a dispatched candidate whose response has an "error" key, or whose reply
\* parses to None, gets the raw response written to <name>.response.json in the
\* errors folder, nothing in the output folder, and the loop goes on with the next
\* candidate; the only other outcome is the write itself raising (C9's case).
C3_FailureRecordedAndLoopContinues ==
    [][(pc = "classify" /\ FailedResponse(response_dict)) =>
          \/ /\ pc' = "exited"
             /\ lastError' = "OSError: open"
             /\ errors_folder' = errors_folder
             /\ output_folder' = output_folder
          \/ /\ \E f \in errors_folder'.files :
                    /\ f.name = current
                    /\ f.ext = "response.json"
                    /\ f.data = response_dict
             /\ output_folder' = output_folder
             /\ pc' = "loop"
             /\ index' = index + 1
             /\ exitStatus' = -1]_vars

\* C3 witness: the first candidate's reply parsed to None, its response is in the
\* errors folder, and a second candidate has been dispatched.
C3_Witness ==
    /\ Len(requests) >= 2
    /\ requests[1].net.kind = "reply"
    /\ ~requests[1].net.body.error
    /\ FailedResponse(requests[1].net.body)
    /\ \E f \in errors_folder.files :
          /\ f.name = requests[1].name
          /\ f.ext = "response.json"
          /\ f.data = requests[1].net.body
    /\ ~path_exists(output_folder, requests[1].name, "json")

\* C4 (as stated): a network failure, HTTP-layer failure or timeout is not raised
\* to the handler of process(); the candidate gets a failure record and the loop
\* continues.
C4_TransportFailureContained ==
    \A i \in TransportFailures :
        /\ lastError # requests[i].net.kind
        /\ (i < Len(requests) \/ pc \in {"loop", "commit", "done"})
              => path_exists(errors_folder, requests[i].name, "response.json")

\* C4 (amended): a failed request (connection failure, timeout, a body that is not
\* JSON) is raised out of process_image_to_json to the handler of process(): the
\* run ends there, the candidate gets no record, no later candidate is dispatched.
C4_TransportFailureAborts ==
    \A i \in TransportFailures :
        /\ i = Len(requests)
        /\ pc = "exited"
        /\ lastError = requests[i].net.kind
        /\ requests[i].name = current
        /\ ~path_exists(errors_folder, requests[i].name, "response.json")
        /\ ~path_exists(output_folder, requests[i].name, "json")
        /\ ~final_output_folder.exists

\* C4 witness: the request of the first of several candidates timed out and the
\* run has ended with the others never dispatched.
C4_Witness ==
    /\ pc = "exited"
    /\ lastError = "RequestException"
    /\ Len(requests) = 1
    /\ Len(image_files) >= 2

\* C5: between two consecutive inference requests of a call the fixed delay has
\* been slept.
C5_DelayBetweenRequests ==
    \A i \in 2..Len(requests) : requests[i].at - requests[i - 1].at >= SleepSeconds

\* C6 (as stated): the final folder is left as it is until the commit step.
C6_FinalUntouchedUntilCommit ==
    [][pc # "commit" => final_output_folder' = final_output_folder]_vars

\* C6 (amended): the reset at the start of process() leaves the staging, output
\* and errors folders present and empty and deletes the final folder of an earlier
\* run; no final folder exists from the reset to the commit step.
C6_ResetWorkspace ==
    /\ pc = "images" =>
          /\ tmp_images_folder = EmptyDir
          /\ output_folder = EmptyDir
          /\ errors_folder = EmptyDir
    /\ pc \in {"images", "loop", "classify", "sleep", "commit"} =>
          ~final_output_folder.exists

\* C6 witness: a call has just reset a workspace in which an earlier run had left
\* a final folder and records.
C6_Witness ==
    /\ pc = "images"
    /\ run >= 2
    /\ before.final
    /\ before.records # {}

\* C7: after the commit step the output folder does not exist, the final folder
\* exists iff this call wrote a success record, and the errors folder exists iff
\* this call wrote a failure record.
C7_CommitOutcome ==
    pc = "done" =>
        /\ ~output_folder.exists
        /\ final_output_folder.exists <=> (\E w \in writes : w[1] = "output")
        /\ errors_folder.exists <=> (\E w \in writes : w[1] = "errors")

\* C7 witness: a committed run in which every candidate failed: the errors folder
\* is kept and no final folder exists.
C7_Witness ==
    /\ pc = "done"
    /\ Len(requests) >= 2
    /\ \A i \in 1..Len(requests) : FailedResponse(requests[i].net.body)
    /\ errors_folder.exists
    /\ ~final_output_folder.exists

\* number of candidates of this call whose response was a failure
FailedCount == Cardinality({i \in 1..Len(requests) : FailedResponse(requests[i].net.body)})

\* C8: after a run over n candidates that reached its end, of which k failed, the
\* final folder holds exactly n-k <name>.json files, the errors folder exactly k
\* <name>.response.json files, and every candidate has its record in exactly one.
C8_OneRecordPerCandidate ==
    pc = "done" =>
        /\ Cardinality(final_output_folder.files) = Len(image_files) - FailedCount
        /\ Cardinality(errors_folder.files) = FailedCount
        /\ \A f \in final_output_folder.files : f.ext = "json"
        /\ \A f \in errors_folder.files : f.ext = "response.json"
        /\ \A j \in 1..Len(image_files) :
              path_exists(final_output_folder, image_files[j], "json")
                 <=> ~path_exists(errors_folder, image_files[j], "response.json")

\* C8 witness: a committed run over three candidates of which exactly one failed.
C8_Witness ==
    /\ pc = "done"
    /\ Len(image_files) = 3
    /\ FailedCount = 1
    /\ Cardinality(final_output_folder.files) = 2

\* C9: when an exception is raised inside the loop at candidate i, the run ends
\* there: the only requests issued are those for the candidates up to i, and no
\* final folder exists.
C9_LoopExceptionAborts ==
    lastError \in LoopErrors =>
        /\ pc = "exited"
        /\ ~final_output_folder.exists
        /\ \A r \in 1..Len(requests) :
              \E j \in 1..(index + 1) : requests[r].name = image_files[j]

\* C9 witness: the write of the second candidate's record failed after the first
\* was written; a third candidate was never dispatched, the earlier run's final
\* folder is gone and the first record is still in the output folder.
C9_Witness ==
    /\ pc = "exited"
    /\ lastError = "OSError: open"
    /\ index = 1
    /\ Len(image_files) = 3
    /\ Len(requests) = 2
    /\ before.final
    /\ output_folder.files # {}

\* C10: a run ended by a fatal error exits with a non-zero status.
C10_FatalExitIsFailure ==
    pc = "exited" => exitStatus # 0

\* the files of folder that split_image names after the file f: <name>_<n><ext>
slices_of(f, folder) ==
    {g \in folder.files : /\ Len(g.name) = Len(f.name) + 1
                          /\ SubSeq(g.name, 1, Len(f.name)) = f.name}

RECURSIVE sum_heights(_)
sum_heights(files) ==
    IF files = {} THEN 0
    ELSE LET f == CHOOSE g \in files : TRUE
         IN  f.data.height + sum_heights(files \ {f})

ceil_div(a, b) == (a + b - 1) \div b

\* the files split_images is called on: the listed ones, as they are on disk
listed_files == {f \in tmp_images_folder.files : f.name \in names_of(image_files)}

\* C11: the step that splits leaves, for every listed image of height h > 1024,
\* exactly ceil(h / 1024) slices, each of height at most 1024, whose heights sum
\* to h, and leaves every listed image of height h <= 1024 as it is.
C11_SlicesTileTheImage ==
    [][(pc = "split" /\ pc' = "loop") =>
        \A f \in listed_files :
            IF f.data.height > max_height
            THEN LET slices == slices_of(f, tmp_images_folder')
                 IN  /\ Cardinality(slices) = ceil_div(f.data.height, max_height)
                     /\ \A g \in slices : g.data.height <= max_height
                     /\ sum_heights(slices) = f.data.height
            ELSE f \in tmp_images_folder'.files]_vars

\* the file of folder stored under the name of f
same_name(f, folder) == CHOOSE g \in folder.files : g.name = f.name

\* a / b rounded to the nearest integer
round_div(a, b) == (2 * a + b) \div (2 * b)

\* C12 as stated: the step that resizes saves every listed image of width w > 1024
\* with width 1024 and height h * 1024 / w rounded to the nearest integer, and
\* keeps the dimensions of every listed image of width w <= 1024.
C12_ResizedToNearest ==
    [][(pc = "resize" /\ pc' = "split") =>
        \A f \in listed_files :
            LET saved == same_name(f, tmp_images_folder').data
            IN  IF f.data.width > max_width
                THEN /\ saved.width = max_width
                     /\ saved.height = round_div(f.data.height * max_width, f.data.width)
                ELSE /\ saved.width = f.data.width
                     /\ saved.height = f.data.height]_vars

\* C12, amended: the step that resizes saves every listed image of width w > 1024
\* with width 1024 and height h * 1024 / w truncated to an integer, or one less
\* than that and only when h * 1024 / w is a whole number (the product is taken
\* in double arithmetic and can fall just below it); it keeps the dimensions of
\* every listed image of width w <= 1024.
C12_ResizedTruncated ==
    [][(pc = "resize" /\ pc' = "split") =>
        \A f \in listed_files :
            LET saved == same_name(f, tmp_images_folder').data
                exact == f.data.height * max_width
                truncated == exact \div f.data.width
            IN  IF f.data.width > max_width
                THEN /\ saved.width = max_width
                     /\ \/ saved.height = truncated
                        \/ /\ saved.height = truncated - 1
                           /\ exact % f.data.width = 0
                ELSE /\ saved.width = f.data.width
                     /\ saved.height = f.data.height]_vars

\* a page of 1536 x 1000 has been resized to 1024 x 666 (666.67 truncated), and a
\* page of 1122 x 1122 to 1024 x 1023
C12_Witness ==
    /\ pc = "split"
    /\ Len(doc.pages) = 2
    /\ doc.pages[1].width = 1536 /\ doc.pages[1].height = 1000
    /\ doc.pages[2].width = 1122 /\ doc.pages[2].height = 1122
    /\ \E f, g \in tmp_images_folder.files :
          /\ f.name = <<1>> /\ f.data.width = max_width /\ f.data.height = 666
          /\ g.name = <<2>> /\ g.data.width = max_width /\ g.data.height = 1023

RECURSIVE commented_json(_, _, _, _)
\* text is one JSON document and at least one comment: line comments of plain
\* words up to the end of their line, block comments of plain words, newlines.
\* mode is "out", "line" or "block": where the scan is
commented_json(text, mode, seen_json, seen_comment) ==
    IF text = <<>> THEN mode # "block" /\ seen_json /\ seen_comment
    ELSE LET h == Head(text)
             t == Tail(text)
         IN  IF mode = "line"
             THEN IF h = "NL" THEN commented_json(t, "out", seen_json, seen_comment)
                  ELSE h = "W" /\ commented_json(t, "line", seen_json, seen_comment)
             ELSE IF mode = "block"
             THEN IF h = "BC" THEN commented_json(t, "out", seen_json, seen_comment)
                  ELSE h \in {"W", "NL"} /\ commented_json(t, "block", seen_json, seen_comment)
             ELSE IF h = "NL" THEN commented_json(t, "out", seen_json, seen_comment)
             ELSE IF h \in {"J", "JU"}
             THEN ~seen_json /\ commented_json(t, "out", TRUE, seen_comment)
             ELSE IF h = "LC" THEN commented_json(t, "line", seen_json, TRUE)
             ELSE h = "BO" /\ commented_json(t, "block", seen_json, TRUE)

\* text is plain words and newlines
plain_text(text) == \A i \in 1..Len(text) : text[i] \in {"W", "NL"}

\* a commented JSON document, bare or inside a ```json ... ``` fence with plain
\* text outside the fence
commented_reply(text) ==
    \/ commented_json(text, "out", FALSE, FALSE)
    \/ \E i, j \in 1..Len(text) :
          /\ i < j /\ text[i] = "FJ" /\ text[j] = "F"
          /\ plain_text(SubSeq(text, 1, i - 1))
          /\ plain_text(SubSeq(text, j + 1, Len(text)))
          /\ commented_json(SubSeq(text, i + 1, j - 1), "out", FALSE, FALSE)

\* the JSON document of a commented reply
json_of(text) == text[find_from(text, {"J", "JU"}, 1)]

\* C14: for every reply that is a JSON document with // and /* */ comments added,
\* bare or in a ```json fence with text outside it, parse_json_string returns
\* the value the document denotes, and the step that classifies the reply takes
\* it for a success.
C14_CommentedJsonParsed ==
    [][(pc = "classify" /\ response_dict.choices /\ commented_reply(response_dict.content)) =>
        /\ parse_json_string(response_dict.content)
              = [kind |-> "value", value |-> json_of(response_dict.content)]
        /\ pc' = "sleep"]_vars

\* every pixel of the image has the colour of the top-left one
all_pixels_equal_top_left(image) ==
    \A i \in 1..Len(image.pixels) : image.pixels[i].colour = image.pixels[1].colour

\* the positions at which the staging folder is as get_image_files last listed it
listing_current == pc \in {"resize", "loop", "classify", "sleep", "commit"}

\* C15: is_solid_color is true of a staged image exactly when every pixel equals
\* the top-left one, and the candidate list of get_image_files is the staged
\* images without exactly those classified solid.
C15_SolidImagesExcluded ==
    /\ \A f \in tmp_images_folder.files :
          is_solid_color(f.data) <=> all_pixels_equal_top_left(f.data)
    /\ listing_current =>
          names_of(image_files)
             = {f.name : f \in {g \in tmp_images_folder.files :
                                   /\ g.ext \in image_extensions
                                   /\ ~all_pixels_equal_top_left(g.data)}}

\* a page of one colour and the same page with one pixel changed have been
\* listed: the first is staged but no candidate, the second is the only candidate
C15_Witness ==
    /\ pc = "loop"
    /\ doc.pages = <<one_colour(800, 1000, 0), one_pixel_changed(800, 1000, 0, 400400, 1)>>
    /\ \E f \in tmp_images_folder.files : f.name = <<1>> /\ is_solid_color(f.data)
    /\ image_files = << <<2>> >>

\* the positions of the loop, where the staged files are those that were encoded
in_loop == pc \in {"loop", "classify", "sleep", "commit"}

\* C16: the requests of a run are made one at a time, in ascending lexicographic
\* order of the file names; the i-th request is for the i-th name of the list and
\* carries the encoding of the file of that name; every record written is stored
\* under the name of a request that carried that file.
C16_DispatchInFilenameOrder ==
    /\ \A i, j \in 1..Len(requests) :
          i < j => str_less(filename(requests[i].name), filename(requests[j].name))
    /\ Len(requests) <= Cardinality(writes) + 1
    /\ in_loop =>
          /\ \A i, j \in 1..Len(image_files) :
                i < j => str_less(filename(image_files[i]), filename(image_files[j]))
          /\ \A i \in 1..Len(requests) :
                /\ requests[i].name = image_files[i]
                /\ \E f \in tmp_images_folder.files :
                      /\ f.name = requests[i].name
                      /\ requests[i].image.base64 = f.data
          /\ \A w \in writes :
                /\ \E i \in 1..Len(requests) : requests[i].name = w[2]
                /\ \E f \in output_folder.files \cup errors_folder.files : f.name = w[2]

\* the ten pages of a document have been dispatched: image_10.jpg second, between
\* image_1.jpg and image_2.jpg, each with its own page
C16_Witness ==
    /\ pc = "commit"
    /\ Len(doc.pages) = 10
    /\ Len(requests) = 10
    /\ requests[1].name = <<1>> /\ requests[2].name = <<10>> /\ requests[3].name = <<2>>
    /\ requests[2].image.base64 = numbered_page(10)
    /\ requests[3].image.base64 = numbered_page(2)
    /\ Cardinality(output_folder.files) = 10

\* every candidate has its record, in the output or in the errors folder
all_candidates_recorded ==
    \A i \in 1..Len(image_files) :
        <<"output", image_files[i]>> \in writes \/ <<"errors", image_files[i]>> \in writes

\* C17: a run that ends without a fatal error leaves the staging folder in
\* existence and without files if cleanup was requested, and with every staged
\* image in place if it was not; no staged file is removed during the loop
\* before every candidate has its record.
C17_CleanupAtEnd ==
    [][/\ (pc = "commit" /\ pc' = "done") =>
             IF cleanup
             THEN tmp_images_folder'.exists /\ tmp_images_folder'.files = {}
             ELSE /\ tmp_images_folder' = tmp_images_folder
                  /\ \A i \in 1..Len(image_files) :
                        \E f \in tmp_images_folder'.files : f.name = image_files[i]
       /\ (in_loop /\ tmp_images_folder' # tmp_images_folder) =>
             /\ pc = "commit" /\ cleanup
             /\ index = Len(image_files)
             /\ all_candidates_recorded]_vars

\* a run with cleanup has ended: three candidates were recorded, one of them as
\* a failure, and the staging folder is there without files
C17_Witness ==
    /\ pc = "done"
    /\ cleanup
    /\ Len(image_files) = 3
    /\ all_candidates_recorded
    /\ \E w \in writes : w[1] = "errors"
    /\ \E w \in writes : w[1] = "output"
    /\ tmp_images_folder = EmptyDir
====
